---- MODULE Spec2Model ----
(***************************************************************************)
(* PADIPOS back end (be-final-project): the Express routes of              *)
(* src/src/routes and the middleware of src/src/middleware/auth.js over    *)
(* the four tables of the persistence gateway (User, MenuItem, Order,      *)
(* OrderItem).  A table is a set of rows, a request is one action that     *)
(* runs the whole middleware chain of its route, and the last response is  *)
(* kept in resp.  POST /orders suspends at each menu lookup, so it is a    *)
(* sequence of steps over the in-flight request cur.                       *)
(*                                                                         *)
(* Strings that the code measures or parses are sequences of characters.   *)
(* Money is an integer number of minor units (1/100 of the currency unit). *)
(* Time is an integer number of milliseconds since the model's epoch.      *)
(***************************************************************************)
EXTENDS Integers, Sequences, FiniteSets, TLC

VARIABLES users, issued, menu, orders, orderItems, lineCount,
          nextUserId, nextMenuId, nextOrderId, cur, now, resp

vars == <<users, issued, menu, orders, orderItems, lineCount,
          nextUserId, nextMenuId, nextOrderId, cur, now, resp>>

(***************************************************************************)
(* Bounds of the model                                                     *)
(***************************************************************************)
MaxUsers == 3
MaxTokens == 2
MaxMenu == 2
MaxOrders == 2
MaxDays == 1

(***************************************************************************)
(* Program constants                                                       *)
(***************************************************************************)
MinUsernameLen == 3
MinPasswordLen == 6
TokenTtl == 86400000
DayLen == 86400000
TaxRatePct == 5
DefaultLimit == 10

Roles == {"admin", "cashier"}
Categories == {"Food", "Beverages", "Desserts"}
OrderTypes == {"Dine_In", "Take_Away"}

(***************************************************************************)
(* Strings as character sequences                                          *)
(***************************************************************************)
Empty == <<>>
S_admin == <<"a", "d", "m">>
S_kim == <<"k", "i", "m">>
S_lee == <<"l", "e", "e">>
S_al == <<"a", "l">>
E_admin == <<"a", "@", "p">>
E_kim == <<"k", "@", "p">>
E_lee == <<"l", "@", "p">>
E_bad == <<"k", "p">>
P_good == <<"s", "e", "c", "r", "e", "t">>
P_other == <<"h", "u", "n", "t", "e", "r">>
P_short == <<"p", "w">>

\* Request fields: username, email, password and name are character
\* sequences; role, category, customerName and orderType are atoms, "" being
\* the empty string.  A JS value is truthy unless it is "", 0, NaN, null or
\* undefined.
Has(body, f) == f \in DOMAIN body
\* req.body.f && ... for a character-sequence field
Given(body, f) == Has(body, f) /\ body[f] # Empty
\* req.body.f && ... for an atom field
GivenAtom(body, f) == Has(body, f) /\ body[f] # ""

\* validator.isEmail, reduced to: one "@" with text on both sides
isEmail(s) ==
  /\ Len(s) > 0
  /\ Cardinality({i \in 1..Len(s) : s[i] = "@"}) = 1
  /\ s[1] # "@"
  /\ s[Len(s)] # "@"

isLength(s, min) == Len(s) >= min

isIn(s, allowed) == s \in allowed

\* bcrypt.hash / bcrypt.compare: a one-way tag on the password
Hash(p) == <<"#">> \o p
Compare(p, h) == Hash(p) = h

(***************************************************************************)
(* Responses                                                               *)
(***************************************************************************)
NoUser == [id |-> 0, username |-> Empty, email |-> Empty, password |-> Empty,
           role |-> "none", status |-> "none"]

Reply(op, status, error, user, req, body) ==
  [op |-> op, status |-> status, error |-> error, user |-> user, req |-> req, body |-> body]

(***************************************************************************)
(* Bearer credentials                                                      *)
(***************************************************************************)
Undefined == [kind |-> "undefined", userId |-> 0, role |-> "none", exp |-> 0, sig |-> "none"]
EmptyToken == [kind |-> "empty", userId |-> 0, role |-> "none", exp |-> 0, sig |-> "none"]
Garbage == [kind |-> "garbage", userId |-> 0, role |-> "none", exp |-> 0, sig |-> "none"]
Jwt(uid, role, exp, sig) == [kind |-> "jwt", userId |-> uid, role |-> role, exp |-> exp, sig |-> sig]

NoHeader == [present |-> FALSE, parts |-> 0, token |-> Undefined]
BareScheme == [present |-> TRUE, parts |-> 1, token |-> Undefined]
Bearer(tok) == [present |-> TRUE, parts |-> 2, token |-> tok]

\* authHeader && authHeader.split(" ")[1]
TokenOf(h) == IF h.present /\ h.parts >= 2 THEN h.token ELSE Undefined
TruthyToken(tok) == tok.kind \notin {"undefined", "empty"}

\* jwt.verify(token, secret): throws unless the token parses, carries the
\* server's signature and has not expired
Verifies(tok) == tok.kind = "jwt" /\ tok.sig = "good" /\ now < tok.exp

FindUser(id) == IF \E u \in users : u.id = id
                THEN CHOOSE u \in users : u.id = id
                ELSE NoUser

\* authenticateToken without the status test, as GET /auth/me is written
authenticateToken_NoStatus(h) ==
  LET token == TokenOf(h)
      user == FindUser(token.userId)
  IN IF ~TruthyToken(token) THEN [status |-> 401, error |-> "Access token required", user |-> NoUser]
     ELSE IF ~Verifies(token) THEN [status |-> 403, error |-> "Invalid or expired token", user |-> NoUser]
     ELSE IF user = NoUser
          THEN [status |-> 403, error |-> "User not found or inactive", user |-> NoUser]
     ELSE [status |-> 0, error |-> "", user |-> user]

authenticateToken(h) ==
  LET token == TokenOf(h)
      user == FindUser(token.userId)
  IN IF ~TruthyToken(token) THEN [status |-> 401, error |-> "Access token required", user |-> NoUser]
     ELSE IF ~Verifies(token) THEN [status |-> 403, error |-> "Invalid or expired token", user |-> NoUser]
     ELSE IF user = NoUser \/ user.status # "active"
          THEN [status |-> 403, error |-> "User not found or inactive", user |-> NoUser]
     ELSE [status |-> 0, error |-> "", user |-> user]

\* requireRole with the membership test left out
requireRole_AnyRole(roles, user) ==
  IF user = NoUser THEN [status |-> 401, error |-> "Authentication required"]
  ELSE [status |-> 0, error |-> ""]

requireRole(roles, user) ==
  IF user = NoUser THEN [status |-> 401, error |-> "Authentication required"]
  ELSE IF user.role \notin roles THEN [status |-> 403, error |-> "Insufficient permissions"]
  ELSE [status |-> 0, error |-> ""]

\* the headers a client can send: no header, a scheme alone, an empty or
\* unparsable token, a token the server issued, or a forgery of one
Forged(tok) == [tok EXCEPT !.sig = "bad"]
Headers == {NoHeader, BareScheme, Bearer(EmptyToken), Bearer(Garbage)}
           \cup {Bearer(t) : t \in issued}
           \cup {Bearer(Forged(t)) : t \in issued}

(***************************************************************************)
(* Auth routes: validateInput, POST /register, POST /login, GET /me        *)
(***************************************************************************)
Err(field, message) == [field |-> field, message |-> message]

\* the errors array, in the order the checks push to it
validateInput(body) ==
  (IF Given(body, "email") /\ ~isEmail(body.email)
     THEN <<Err("email", "Please provide valid email")>> ELSE <<>>)
  \o (IF Given(body, "username") /\ ~isLength(body.username, MinUsernameLen)
     THEN <<Err("username", "Username must be at least 3 characters")>> ELSE <<>>)
  \o (IF Given(body, "password") /\ ~isLength(body.password, MinPasswordLen)
     THEN <<Err("password", "Password must be at least 6 characters")>> ELSE <<>>)
  \o (IF GivenAtom(body, "role") /\ ~isIn(body.role, Roles)
     THEN <<Err("role", "Invalid role")>> ELSE <<>>)

\* the unique indexes of the User table that an insert of (username, email)
\* would violate (Prisma error P2002, meta.target)
UniqueTargets(username, email) ==
  {f \in {"username", "email"} :
     \E u \in users : IF f = "username" THEN u.username = username ELSE u.email = email}

\* prisma.user.create with a mutation that skips the unique indexes
CreateUser_NoIndex(body) ==
  [code |-> "ok", targets |-> {},
   user |-> [id |-> nextUserId, username |-> body.username,
             email |-> body.email, password |-> Hash(body.password),
             role |-> body.role, status |-> "active"]]

\* prisma.user.create({data: {username, email, password: hashed, role}}):
\* the new row, or error P2002 with the violated index as meta.target
CreateUser(body) ==
  IF UniqueTargets(body.username, body.email) # {}
  THEN [code |-> "P2002", targets |-> UniqueTargets(body.username, body.email), user |-> NoUser]
  ELSE [code |-> "ok", targets |-> {},
        user |-> [id |-> nextUserId, username |-> body.username,
                  email |-> body.email, password |-> Hash(body.password),
                  role |-> body.role, status |-> "active"]]

Register(body) ==
  LET errors == validateInput(body)
      req == [body |-> body]
  IN /\ nextUserId <= MaxUsers
     /\ IF errors # <<>>
        THEN /\ resp' = Reply("register", 400, "validation", NoUser, req, errors)
             /\ UNCHANGED <<users, nextUserId>>
        ELSE IF ~Given(body, "username") \/ ~Given(body, "email")
                \/ ~Given(body, "password") \/ ~GivenAtom(body, "role")
        THEN /\ resp' = Reply("register", 400, "All fields are required", NoUser, req, <<>>)
             /\ UNCHANGED <<users, nextUserId>>
        ELSE LET created == CreateUser(body)
             IN IF created.code = "P2002"
                THEN /\ \E field \in created.targets :
                          resp' = Reply("register", 400, "already exists", NoUser, req, field)
                     /\ UNCHANGED <<users, nextUserId>>
                ELSE /\ users' = users \cup {created.user}
                     /\ nextUserId' = nextUserId + 1
                     /\ resp' = Reply("register", 201, "", created.user, req, <<>>)
     /\ UNCHANGED <<issued, menu, orders, orderItems, lineCount, nextMenuId, nextOrderId, cur, now>>

FindUserByEmail(email) == IF \E u \in users : u.email = email
                          THEN CHOOSE u \in users : u.email = email
                          ELSE NoUser

Login(body) ==
  LET errors == validateInput(body)
      req == [body |-> body]
      user == FindUserByEmail(body.email)
      token == Jwt(user.id, user.role, now + TokenTtl, "good")
  IN /\ IF errors # <<>>
        THEN /\ resp' = Reply("login", 400, "validation", NoUser, req, errors)
             /\ UNCHANGED issued
        ELSE IF ~Given(body, "email") \/ ~Given(body, "password")
        THEN /\ resp' = Reply("login", 400, "Email and password are required", NoUser, req, <<>>)
             /\ UNCHANGED issued
        ELSE IF user = NoUser \/ user.status # "active"
        THEN /\ resp' = Reply("login", 401, "Invalid credentials or account inactive", NoUser, req, <<>>)
             /\ UNCHANGED issued
        ELSE IF ~Compare(body.password, user.password)
        THEN /\ resp' = Reply("login", 401, "Invalid credentials", NoUser, req, <<>>)
             /\ UNCHANGED issued
        ELSE /\ Cardinality(issued \cup {token}) <= MaxTokens
             /\ issued' = issued \cup {token}
             /\ resp' = Reply("login", 200, "", user, req, token)
     /\ UNCHANGED <<users, menu, orders, orderItems, lineCount, nextUserId, nextMenuId, nextOrderId, cur, now>>

Me(h) ==
  LET token == TokenOf(h)
      user == FindUser(token.userId)
      req == [header |-> h]
  IN /\ IF ~TruthyToken(token)
        THEN resp' = Reply("me", 401, "Access token required", NoUser, req, <<>>)
        ELSE IF ~Verifies(token)
        THEN resp' = Reply("me", 403, "Invalid or expired token", NoUser, req, <<>>)
        ELSE IF user = NoUser
        THEN resp' = Reply("me", 404, "User not found", NoUser, req, <<>>)
        ELSE resp' = Reply("me", 200, "", user, req, <<>>)
     /\ UNCHANGED <<users, issued, menu, orders, orderItems, lineCount,
                    nextUserId, nextMenuId, nextOrderId, cur, now>>

(***************************************************************************)
(* User routes behind authenticateToken: GET /users, GET /users/:id        *)
(***************************************************************************)
GetUsers(h) ==
  LET auth == authenticateToken(h)
      gate == requireRole({"admin"}, auth.user)
      req == [header |-> h]
  IN /\ IF auth.status # 0
        THEN resp' = Reply("getUsers", auth.status, auth.error, NoUser, req, <<>>)
        ELSE IF gate.status # 0
        THEN resp' = Reply("getUsers", gate.status, gate.error, auth.user, req, <<>>)
        ELSE resp' = Reply("getUsers", 200, "", auth.user, req, {u.id : u \in users})
     /\ UNCHANGED <<users, issued, menu, orders, orderItems, lineCount,
                    nextUserId, nextMenuId, nextOrderId, cur, now>>

GetUserById(h, id) ==
  LET auth == authenticateToken(h)
      req == [header |-> h, id |-> id]
      user == FindUser(id)
  IN /\ IF auth.status # 0
        THEN resp' = Reply("getUser", auth.status, auth.error, NoUser, req, <<>>)
        ELSE IF auth.user.role # "admin" /\ auth.user.id # id
        THEN resp' = Reply("getUser", 403, "Access denied", auth.user, req, <<>>)
        ELSE IF user = NoUser
        THEN resp' = Reply("getUser", 404, "User not found", auth.user, req, <<>>)
        ELSE resp' = Reply("getUser", 200, "", auth.user, req, user.id)
     /\ UNCHANGED <<users, issued, menu, orders, orderItems, lineCount,
                    nextUserId, nextMenuId, nextOrderId, cur, now>>

(***************************************************************************)
(* User maintenance (an administrator changing or removing a User row) and *)
(* the passing of time                                                     *)
(***************************************************************************)
NoReply == Reply("none", 0, "", NoUser, <<>>, <<>>)

UpdateUser(id, role, status) ==
  /\ \E u \in users : u.id = id
  /\ users' = {IF u.id = id THEN [u EXCEPT !.role = role, !.status = status] ELSE u : u \in users}
  /\ users' # users
  /\ resp' = NoReply
  /\ UNCHANGED <<issued, menu, orders, orderItems, lineCount,
                 nextUserId, nextMenuId, nextOrderId, cur, now>>

DeleteUser(id) ==
  /\ \E u \in users : u.id = id
  /\ ~\E o \in orders : o.createdBy = id
  /\ users' = {u \in users : u.id # id}
  /\ resp' = NoReply
  /\ UNCHANGED <<issued, menu, orders, orderItems, lineCount,
                 nextUserId, nextMenuId, nextOrderId, cur, now>>

Tick(d) ==
  /\ now + d <= MaxDays * DayLen
  /\ now' = now + d
  /\ resp' = NoReply
  /\ UNCHANGED <<users, issued, menu, orders, orderItems, lineCount,
                 nextUserId, nextMenuId, nextOrderId, cur>>

(***************************************************************************)
(* The database after utils/seed.js                                        *)
(***************************************************************************)
SeedAdmin == [id |-> 1, username |-> S_admin, email |-> E_admin,
              password |-> Hash(P_good), role |-> "admin", status |-> "active"]
SeedCashier == [id |-> 2, username |-> S_kim, email |-> E_kim,
                password |-> Hash(P_good), role |-> "cashier", status |-> "active"]

\* no POST /orders in flight
Idle == [pc |-> "idle", header |-> NoHeader, user |-> NoUser, body |-> <<>>,
         orderItems |-> <<>>, subtotal |-> 0, data |-> <<>>]

InitAuth ==
  /\ users = {SeedAdmin, SeedCashier}
  /\ nextUserId = 3
  /\ issued = {}
  /\ menu = {}
  /\ nextMenuId = 1
  /\ orders = {}
  /\ orderItems = {}
  /\ lineCount = <<>>
  /\ nextOrderId = 1
  /\ cur = Idle
  /\ now = 0
  /\ resp = NoReply

AllFields == {"username", "email", "password", "role"}
FieldSets == {AllFields} \cup {AllFields \ {f} : f \in AllFields}
Usernames == {Empty, S_al, S_kim, S_lee, S_admin}
Emails == {Empty, E_bad, E_kim, E_lee, E_admin}
Passwords == {P_short, P_good, P_other}
RoleInputs == {"", "root", "admin", "cashier"}

Body(D, u, e, p, r) ==
  [f \in D |-> CASE f = "username" -> u [] f = "email" -> e
                 [] f = "password" -> p [] f = "role" -> r]

RegisterBodies ==
  {Body(D, u, e, p, r) : D \in FieldSets, u \in Usernames, e \in Emails,
                         p \in {P_short, P_good}, r \in RoleInputs}
LoginBodies ==
  {Body(D, Empty, e, p, "") : D \in {{"email", "password"}, {"email"}},
                              e \in Emails, p \in Passwords}

InitRegister ==
  /\ users = {SeedAdmin}
  /\ nextUserId = 2
  /\ issued = {}
  /\ menu = {}
  /\ nextMenuId = 1
  /\ orders = {}
  /\ orderItems = {}
  /\ lineCount = <<>>
  /\ nextOrderId = 1
  /\ cur = Idle
  /\ now = 0
  /\ resp = NoReply

NextRegister == \E body \in RegisterBodies : Register(body)

SpecRegister == InitRegister /\ [][NextRegister]_vars

NextAuth ==
  \/ \E body \in LoginBodies : Login(body)
  \/ \E h \in Headers : Me(h)
  \/ \E h \in Headers : GetUsers(h)
  \/ \E h \in Headers, id \in 1..MaxUsers : GetUserById(h, id)
  \/ \E id \in 1..MaxUsers, role \in Roles, status \in {"active", "inactive"} :
       UpdateUser(id, role, status)
  \/ \E id \in 1..MaxUsers : DeleteUser(id)
  \/ Tick(DayLen)

SpecAuth == InitAuth /\ [][NextAuth]_vars

(***************************************************************************)
(* Menu routes: validateMenuItem, POST /menu, PUT /menu/:id, DELETE        *)
(***************************************************************************)
N_nasi == <<"N", "a", "s", "i">>
N_teh == <<"T", "e", "h">>
N_blank == <<" ">>
N_padded == <<" ", "T", "e", "h">>

\* String.prototype.trim
RECURSIVE TrimLeft(_)
TrimLeft(s) == IF s # <<>> /\ Head(s) = " " THEN TrimLeft(Tail(s)) ELSE s
RECURSIVE TrimRight(_)
TrimRight(s) == IF s # <<>> /\ s[Len(s)] = " " THEN TrimRight(SubSeq(s, 1, Len(s) - 1)) ELSE s
Trim(s) == TrimRight(TrimLeft(s))

\* a price as it arrives in the JSON body: a number, or a string that
\* parseFloat / isNaN read as val (nan when it is no number)
PNum(n) == [js |-> "number", nan |-> FALSE, val |-> n]
PStr(n) == [js |-> "string", nan |-> FALSE, val |-> n]
PText == [js |-> "string", nan |-> TRUE, val |-> 0]
\* truthiness of the price: the number 0 is falsy, a non-empty string is not
TruthyPrice(p) == IF p.js = "number" THEN p.val # 0 ELSE TRUE
isNaN(p) == p.nan
parseFloat(p) == p.val

NoItem == [id |-> 0, name |-> Empty, category |-> "none", price |-> 0, isAvailable |-> FALSE]
FindMenuItem(id) == IF \E m \in menu : m.id = id
                    THEN CHOOSE m \in menu : m.id = id
                    ELSE NoItem

\* validateMenuItem with the price test cut down to isNaN
validateMenuItem_NoRange(body) ==
  (IF Given(body, "name") /\ Len(Trim(body.name)) = 0
     THEN <<Err("name", "Name is required")>> ELSE <<>>)
  \o (IF GivenAtom(body, "category") /\ body.category \notin Categories
     THEN <<Err("category", "Invalid category")>> ELSE <<>>)
  \o (IF Has(body, "price") /\ TruthyPrice(body.price) /\ isNaN(body.price)
     THEN <<Err("price", "Price must be greater than 0")>> ELSE <<>>)

validateMenuItem(body) ==
  (IF Given(body, "name") /\ Len(Trim(body.name)) = 0
     THEN <<Err("name", "Name is required")>> ELSE <<>>)
  \o (IF GivenAtom(body, "category") /\ body.category \notin Categories
     THEN <<Err("category", "Invalid category")>> ELSE <<>>)
  \o (IF Has(body, "price") /\ TruthyPrice(body.price)
        /\ (isNaN(body.price) \/ parseFloat(body.price) <= 0)
     THEN <<Err("price", "Price must be greater than 0")>> ELSE <<>>)

MenuCreate(h, body) ==
  LET auth == authenticateToken(h)
      gate == requireRole({"admin"}, auth.user)
      errors == validateMenuItem(body)
      req == [header |-> h, body |-> body]
  IN /\ nextMenuId <= MaxMenu
     /\ IF auth.status # 0
        THEN /\ resp' = Reply("menuCreate", auth.status, auth.error, NoUser, req, <<>>)
             /\ UNCHANGED <<menu, nextMenuId>>
        ELSE IF gate.status # 0
        THEN /\ resp' = Reply("menuCreate", gate.status, gate.error, auth.user, req, <<>>)
             /\ UNCHANGED <<menu, nextMenuId>>
        ELSE IF errors # <<>>
        THEN /\ resp' = Reply("menuCreate", 400, "validation", auth.user, req, errors)
             /\ UNCHANGED <<menu, nextMenuId>>
        ELSE IF ~Given(body, "name") \/ ~GivenAtom(body, "category")
                \/ ~(Has(body, "price") /\ TruthyPrice(body.price))
        THEN /\ resp' = Reply("menuCreate", 400, "Name, category, and price are required",
                              auth.user, req, <<>>)
             /\ UNCHANGED <<menu, nextMenuId>>
        ELSE LET menuItem == [id |-> nextMenuId, name |-> Trim(body.name),
                              category |-> body.category,
                              price |-> parseFloat(body.price), isAvailable |-> TRUE]
             IN /\ menu' = menu \cup {menuItem}
                /\ nextMenuId' = nextMenuId + 1
                /\ resp' = Reply("menuCreate", 201, "", auth.user, req, menuItem)
     /\ UNCHANGED <<users, issued, orders, orderItems, lineCount, nextUserId, nextOrderId, cur, now>>

\* updateData = {...req.body}, the price run through parseFloat when truthy
UpdateData(body, old) ==
  [id |-> old.id,
   name |-> IF Has(body, "name") THEN body.name ELSE old.name,
   category |-> IF Has(body, "category") THEN body.category ELSE old.category,
   price |-> IF Has(body, "price") THEN parseFloat(body.price) ELSE old.price,
   isAvailable |-> IF Has(body, "isAvailable") THEN body.isAvailable ELSE old.isAvailable]

\* what the client's own argument check refuses before any query is sent:
\* a category outside the enum, a price that is no number
RejectedByClient(body) ==
  \/ Has(body, "category") /\ body.category \notin Categories
  \/ Has(body, "price") /\ (isNaN(body.price) \/ (body.price.js = "string" /\ ~TruthyPrice(body.price)))

\* PUT /menu/:id that also rewrites the name and price kept by the order
\* items of the menu item
MenuUpdate_Propagate(h, id, body) ==
  LET auth == authenticateToken(h)
      gate == requireRole({"admin"}, auth.user)
      errors == validateMenuItem(body)
      req == [header |-> h, id |-> id, body |-> body]
      old == FindMenuItem(id)
      new == UpdateData(body, old)
  IN /\ IF auth.status # 0
        THEN /\ resp' = Reply("menuUpdate", auth.status, auth.error, NoUser, req, <<>>)
             /\ UNCHANGED <<menu, orderItems>>
        ELSE IF gate.status # 0
        THEN /\ resp' = Reply("menuUpdate", gate.status, gate.error, auth.user, req, <<>>)
             /\ UNCHANGED <<menu, orderItems>>
        ELSE IF errors # <<>>
        THEN /\ resp' = Reply("menuUpdate", 400, "validation", auth.user, req, errors)
             /\ UNCHANGED <<menu, orderItems>>
        ELSE IF RejectedByClient(body)
        THEN /\ resp' = Reply("menuUpdate", 500, "Failed to update menu item", auth.user, req, <<>>)
             /\ UNCHANGED <<menu, orderItems>>
        ELSE IF old = NoItem
        THEN /\ resp' = Reply("menuUpdate", 404, "Menu item not found", auth.user, req, <<>>)
             /\ UNCHANGED <<menu, orderItems>>
        ELSE /\ menu' = (menu \ {old}) \cup {new}
             /\ orderItems' = {IF it.menuItemId = id
                                 THEN [it EXCEPT !.menuItemName = new.name,
                                                 !.menuItemPrice = new.price]
                                 ELSE it : it \in orderItems}
             /\ resp' = Reply("menuUpdate", 200, "", auth.user, req, new)
     /\ UNCHANGED <<users, issued, orders, lineCount,
                    nextUserId, nextMenuId, nextOrderId, cur, now>>

MenuUpdate(h, id, body) ==
  LET auth == authenticateToken(h)
      gate == requireRole({"admin"}, auth.user)
      errors == validateMenuItem(body)
      req == [header |-> h, id |-> id, body |-> body]
      old == FindMenuItem(id)
  IN /\ IF auth.status # 0
        THEN /\ resp' = Reply("menuUpdate", auth.status, auth.error, NoUser, req, <<>>)
             /\ UNCHANGED menu
        ELSE IF gate.status # 0
        THEN /\ resp' = Reply("menuUpdate", gate.status, gate.error, auth.user, req, <<>>)
             /\ UNCHANGED menu
        ELSE IF errors # <<>>
        THEN /\ resp' = Reply("menuUpdate", 400, "validation", auth.user, req, errors)
             /\ UNCHANGED menu
        ELSE IF RejectedByClient(body)
        THEN /\ resp' = Reply("menuUpdate", 500, "Failed to update menu item", auth.user, req, <<>>)
             /\ UNCHANGED menu
        ELSE IF old = NoItem
        THEN /\ resp' = Reply("menuUpdate", 404, "Menu item not found", auth.user, req, <<>>)
             /\ UNCHANGED menu
        ELSE /\ menu' = (menu \ {old}) \cup {UpdateData(body, old)}
             /\ resp' = Reply("menuUpdate", 200, "", auth.user, req, UpdateData(body, old))
     /\ UNCHANGED <<users, issued, orders, orderItems, lineCount,
                    nextUserId, nextMenuId, nextOrderId, cur, now>>

\* dbOk = FALSE: the store refuses to delete a row that order items refer to
MenuDelete(h, id, dbOk) ==
  LET auth == authenticateToken(h)
      gate == requireRole({"admin"}, auth.user)
      req == [header |-> h, id |-> id]
      old == FindMenuItem(id)
  IN /\ IF auth.status # 0
        THEN /\ resp' = Reply("menuDelete", auth.status, auth.error, NoUser, req, <<>>)
             /\ UNCHANGED menu
        ELSE IF gate.status # 0
        THEN /\ resp' = Reply("menuDelete", gate.status, gate.error, auth.user, req, <<>>)
             /\ UNCHANGED menu
        ELSE IF old = NoItem
        THEN /\ resp' = Reply("menuDelete", 404, "Menu item not found", auth.user, req, <<>>)
             /\ UNCHANGED menu
        ELSE IF ~dbOk /\ \E it \in orderItems : it.menuItemId = id
        THEN /\ resp' = Reply("menuDelete", 500, "Failed to delete menu item", auth.user, req, <<>>)
             /\ UNCHANGED menu
        ELSE /\ menu' = menu \ {old}
             /\ resp' = Reply("menuDelete", 200, "", auth.user, req, <<>>)
     /\ UNCHANGED <<users, issued, orders, orderItems, lineCount,
                    nextUserId, nextMenuId, nextOrderId, cur, now>>

\* the seeded menu, two of the items of utils/seed.js
SeedNasi == [id |-> 1, name |-> N_nasi, category |-> "Food", price |-> 1000, isAvailable |-> TRUE]
SeedTeh == [id |-> 2, name |-> N_teh, category |-> "Beverages", price |-> 500, isAvailable |-> TRUE]

AdminToken == Jwt(1, "admin", TokenTtl, "good")
CashierToken == Jwt(2, "cashier", TokenTtl, "good")

InitMenu ==
  /\ users = {SeedAdmin, SeedCashier}
  /\ nextUserId = 3
  /\ issued = {AdminToken, CashierToken}
  /\ menu = {SeedNasi}
  /\ nextMenuId = 2
  /\ orders = {}
  /\ orderItems = {}
  /\ lineCount = <<>>
  /\ nextOrderId = 1
  /\ cur = Idle
  /\ now = 0
  /\ resp = NoReply

MenuFields == {"name", "category", "price"}
MenuFieldSets == {MenuFields} \cup {MenuFields \ {f} : f \in MenuFields}
NameInputs == {Empty, N_blank, N_padded}
CategoryInputs == {"", "Snack", "Desserts"}
PriceInputs == {PNum(0), PNum(-500), PNum(500), PStr(0), PText}

MenuBody(D, n, c, p) ==
  [f \in D |-> CASE f = "name" -> n [] f = "category" -> c [] f = "price" -> p]

CreateBodies ==
  {MenuBody(D, n, c, p) : D \in MenuFieldSets, n \in NameInputs,
                          c \in CategoryInputs, p \in PriceInputs}
UpdateBodies ==
  {[price |-> p] : p \in PriceInputs}
  \cup {[isAvailable |-> b] : b \in BOOLEAN}
  \cup {[category |-> c] : c \in {"", "Snack"}}
  \cup {[name |-> N_blank, category |-> "Snack", price |-> PNum(-500)]}

\* the credentials used against the menu and order routes: none, and the
\* tokens of the users that have logged in
Sessions == {NoHeader} \cup {Bearer(t) : t \in issued}

NextMenu ==
  \/ \E h \in Sessions, body \in CreateBodies : MenuCreate(h, body)
  \/ \E h \in Sessions, id \in 1..MaxMenu, body \in UpdateBodies : MenuUpdate(h, id, body)
  \/ \E h \in Sessions, id \in 1..MaxMenu, dbOk \in BOOLEAN : MenuDelete(h, id, dbOk)

SpecMenu == InitMenu /\ [][NextMenu]_vars

(***************************************************************************)
(* Order routes: POST /orders                                              *)
(*                                                                         *)
(* The handler suspends at every prisma.menuItem.findUnique and at         *)
(* prisma.order.create; cur is the request in flight between those points: *)
(* CreateOrderBegin runs up to the loop, CreateOrderLookup runs one        *)
(* iteration (and after the last one the totals and the payment check),    *)
(* CreateOrderPersist is the nested create committing or failing.          *)
(***************************************************************************)
OrderNumberModulus == 1000000

\* generateOrderNumber taking the digits from the time in seconds
generateOrderNumber_Seconds == (now \div 1000) % OrderNumberModulus

\* generateOrderNumber: "ORDR#" and the last six digits of the time
generateOrderNumber == now % OrderNumberModulus

\* !menuItem || !menuItem.isAvailable, with the availability test left out
ItemUnavailable_MissingOnly(menuItem) == menuItem = NoItem

ItemUnavailable(menuItem) == menuItem = NoItem \/ ~menuItem.isAvailable

LineTotal(price, quantity) == price * quantity

\* the tax at the former rate of 10%
TaxOf_TenPercent(subtotal) == (subtotal * 10) \div 100

\* subtotal * 0.05; the prices used are multiples of 20 minor units, for
\* which the product is a whole number of minor units
TaxOf(subtotal) == (subtotal * TaxRatePct) \div 100

Max(a, b) == IF a >= b THEN a ELSE b

\* amountPaid < total, off by one
InsufficientPayment_OrEqual(amountPaid, total) == amountPaid <= total

InsufficientPayment(amountPaid, total) == amountPaid < total

Line(menuItemId, quantity) == [menuItemId |-> menuItemId, quantity |-> quantity]

CreateOrderBegin(h, body) ==
  LET auth == authenticateToken(h)
      req == [header |-> h, body |-> body]
  IN /\ cur.pc = "idle"
     /\ nextOrderId <= MaxOrders
     /\ IF auth.status # 0
        THEN /\ resp' = Reply("createOrder", auth.status, auth.error, NoUser, req, <<>>)
             /\ UNCHANGED cur
        ELSE IF ~GivenAtom(body, "customerName") \/ ~GivenAtom(body, "orderType")
                \/ ~Has(body, "items")
                \/ ~(Has(body, "amountPaid") /\ body.amountPaid # 0)
        THEN /\ resp' = Reply("createOrder", 400, "required", auth.user, req, <<>>)
             /\ UNCHANGED cur
        ELSE IF Len(body.items) = 0
        THEN /\ resp' = Reply("createOrder", 400, "Order must have at least one item",
                              auth.user, req, <<>>)
             /\ UNCHANGED cur
        ELSE /\ cur' = [pc |-> "lookup", header |-> h, user |-> auth.user, body |-> body,
                        orderItems |-> <<>>, subtotal |-> 0, data |-> <<>>]
             /\ resp' = NoReply
     /\ UNCHANGED <<users, issued, menu, orders, orderItems, lineCount,
                    nextUserId, nextMenuId, nextOrderId, now>>

CreateOrderLookup ==
  LET req == [header |-> cur.header, body |-> cur.body]
      i == Len(cur.orderItems) + 1
      item == cur.body.items[i]
      menuItem == FindMenuItem(item.menuItemId)
      lineTotal == LineTotal(menuItem.price, item.quantity)
      subtotal == cur.subtotal + lineTotal
      pushed == Append(cur.orderItems,
                       [menuItemId |-> menuItem.id, menuItemName |-> menuItem.name,
                        menuItemPrice |-> menuItem.price, quantity |-> item.quantity,
                        lineTotal |-> lineTotal])
      tax == TaxOf(subtotal)
      total == subtotal + tax
      changeAmount == Max(0, cur.body.amountPaid - total)
  IN /\ cur.pc = "lookup"
     /\ IF ItemUnavailable(menuItem)
        THEN /\ resp' = Reply("createOrder", 400, "not found or unavailable", cur.user, req,
                              [menuItemId |-> item.menuItemId, line |-> i])
             /\ cur' = Idle
        ELSE IF i < Len(cur.body.items)
        THEN /\ cur' = [cur EXCEPT !.orderItems = pushed, !.subtotal = subtotal]
             /\ resp' = NoReply
        ELSE IF InsufficientPayment(cur.body.amountPaid, total)
        THEN /\ resp' = Reply("createOrder", 400, "Insufficient payment amount", cur.user, req,
                              [required |-> total, provided |-> cur.body.amountPaid,
                               lines |-> pushed])
             /\ cur' = Idle
        ELSE /\ cur' = [cur EXCEPT !.pc = "persist", !.orderItems = pushed,
                                   !.subtotal = subtotal,
                                   !.data = [orderNumber |-> generateOrderNumber,
                                             customerName |-> cur.body.customerName,
                                             orderType |-> cur.body.orderType,
                                             subtotal |-> subtotal, tax |-> tax,
                                             total |-> total,
                                             amountPaid |-> cur.body.amountPaid,
                                             changeAmount |-> changeAmount,
                                             createdBy |-> cur.user.id]]
             /\ resp' = NoReply
     /\ UNCHANGED <<users, issued, menu, orders, orderItems, lineCount,
                    nextUserId, nextMenuId, nextOrderId, now>>

OrderRow(id, data) ==
  [id |-> id, orderNumber |-> data.orderNumber, customerName |-> data.customerName,
   orderType |-> data.orderType, subtotal |-> data.subtotal, tax |-> data.tax,
   total |-> data.total, amountPaid |-> data.amountPaid,
   changeAmount |-> data.changeAmount, createdBy |-> data.createdBy, createdAt |-> now]

ItemRows(id, items) ==
  {[id |-> <<id, k>>, orderId |-> id, menuItemId |-> items[k].menuItemId,
    menuItemName |-> items[k].menuItemName, menuItemPrice |-> items[k].menuItemPrice,
    quantity |-> items[k].quantity, lineTotal |-> items[k].lineTotal] : k \in 1..Len(items)}

\* the order written by one statement and its items by another: a failure
\* after the first leaves the order row behind
NestedCreate_TwoWrites(id, data, items, dbOk) ==
  IF dbOk THEN [ok |-> TRUE, order |-> {OrderRow(id, data)}, items |-> ItemRows(id, items)]
  ELSE [ok |-> FALSE, order |-> {OrderRow(id, data)}, items |-> {}]

\* prisma.order.create({data: {..., orderItems: {create: orderItems}}}): a
\* nested write, which the client runs in one transaction; dbOk = FALSE is
\* the store failing it
NestedCreate(id, data, items, dbOk) ==
  IF dbOk THEN [ok |-> TRUE, order |-> {OrderRow(id, data)}, items |-> ItemRows(id, items)]
  ELSE [ok |-> FALSE, order |-> {}, items |-> {}]

CreateOrderPersist(dbOk) ==
  LET req == [header |-> cur.header, body |-> cur.body]
      written == NestedCreate(nextOrderId, cur.data, cur.orderItems, dbOk)
  IN /\ cur.pc = "persist"
     /\ orders' = orders \cup written.order
     /\ orderItems' = orderItems \cup written.items
     /\ lineCount' = lineCount @@ (nextOrderId :> Len(cur.orderItems))
     /\ nextOrderId' = nextOrderId + 1
     /\ IF written.ok
        THEN resp' = Reply("createOrder", 201, "", cur.user, req,
                           [order |-> OrderRow(nextOrderId, cur.data),
                            orderItems |-> ItemRows(nextOrderId, cur.orderItems)])
        ELSE resp' = Reply("createOrder", 500, "Failed to create order", cur.user, req, <<>>)
     /\ cur' = Idle
     /\ UNCHANGED <<users, issued, menu, nextUserId, nextMenuId, now>>

InitOrder ==
  /\ users = {SeedAdmin, SeedCashier}
  /\ nextUserId = 3
  /\ issued = {AdminToken, CashierToken}
  /\ menu = {SeedNasi, SeedTeh}
  /\ nextMenuId = 3
  /\ orders = {}
  /\ orderItems = {}
  /\ lineCount = <<>>
  /\ nextOrderId = 1
  /\ cur = Idle
  /\ now = 0
  /\ resp = NoReply

\* the order of the spec's round trip (A x 2 and B x 1), single lines, and
\* lists with a line for an id that was never a menu item
NoSuchId == MaxMenu + 7
ItemLists == {<<>>, <<Line(1, 2), Line(2, 1)>>, <<Line(2, 1)>>, <<Line(1, 1), Line(2, 2)>>,
              <<Line(NoSuchId, 1), Line(1, 1)>>, <<Line(1, 1), Line(NoSuchId, 1)>>}
AmountsPaid == {0, 2000, 2625, 3000}

OrderBody(D, items, amountPaid) ==
  [f \in D |-> CASE f = "customerName" -> "Budi" [] f = "orderType" -> "Dine_In"
                 [] f = "items" -> items [] f = "amountPaid" -> amountPaid]

OrderFields == {"customerName", "orderType", "items", "amountPaid"}
OrderBodies ==
  {OrderBody(OrderFields, items, paid) : items \in ItemLists, paid \in AmountsPaid}
  \cup {OrderBody(OrderFields \ {f}, <<Line(1, 1)>>, 3000) : f \in OrderFields}

\* the menu edits that race with an order: a new price, a withdrawal, a return
EditBodies == {[price |-> PNum(2000)], [isAvailable |-> FALSE], [isAvailable |-> TRUE]}

NextOrder ==
  \/ \E h \in {NoHeader, Bearer(CashierToken)}, body \in OrderBodies : CreateOrderBegin(h, body)
  \/ CreateOrderLookup
  \/ \E dbOk \in BOOLEAN : CreateOrderPersist(dbOk)
  \/ \E id \in 1..MaxMenu, body \in EditBodies : MenuUpdate(Bearer(AdminToken), id, body)
  \/ \E id \in 1..MaxMenu, dbOk \in BOOLEAN : MenuDelete(Bearer(AdminToken), id, dbOk)

SpecOrder == InitOrder /\ [][NextOrder]_vars

(***************************************************************************)
(* Reading orders: GET /orders, GET /orders/:id, GET /reports/my-performance, *)
(* GET /reports/today-summary                                              *)
(***************************************************************************)
PerformanceDays == 30

\* startDate && endDate of the query string
NoWindow == [given |-> FALSE, startDate |-> 0, endDate |-> 0]
Window(startDate, endDate) == [given |-> TRUE, startDate |-> startDate, endDate |-> endDate]

\* where.createdAt = {gte: new Date(startDate), lte: new Date(endDate)}
InDates(w, o) == w.given => (w.startDate <= o.createdAt /\ o.createdAt <= w.endDate)

\* the role filter left out: every user is given every order
CashierScope_Everyone(user, o) == TRUE

\* if (req.user.role === "cashier") where.createdBy = req.user.id
CashierScope(user, o) == user.role = "cashier" => o.createdBy = user.id

\* orderBy: {createdAt: "desc"}: the orderings of S the store may return
SortedDesc(S) ==
  {q \in [1..Cardinality(S) -> S] :
     /\ \A i, j \in 1..Cardinality(S) : i # j => q[i] # q[j]
     /\ \A i, j \in 1..Cardinality(S) : i < j => q[i].createdAt >= q[j].createdAt}

Min(a, b) == IF a <= b THEN a ELSE b
Ceil(a, b) == (a + b - 1) \div b

\* an order formatted with its items, as the order routes return it
Formatted(o) == [order |-> o, orderItems |-> {it \in orderItems : it.orderId = o.id}]

GetOrders(h, page, limit, w) ==
  LET auth == authenticateToken(h)
      req == [header |-> h, page |-> page, limit |-> limit, window |-> w]
      matched == {o \in orders : InDates(w, o) /\ CashierScope(auth.user, o)}
      skip == (page - 1) * limit
      total == Cardinality(matched)
  IN /\ IF auth.status # 0
        THEN resp' = Reply("getOrders", auth.status, auth.error, NoUser, req, <<>>)
        ELSE \E q \in SortedDesc(matched) :
               resp' = Reply("getOrders", 200, "", auth.user, req,
                             [orders |-> [k \in 1..(Min(skip + limit, total) - Min(skip, total))
                                            |-> Formatted(q[skip + k])],
                              pagination |-> [page |-> page, limit |-> limit, total |-> total,
                                              totalPages |-> Ceil(total, limit)]])
     /\ UNCHANGED <<users, issued, menu, orders, orderItems, lineCount,
                    nextUserId, nextMenuId, nextOrderId, cur, now>>

NoOrder == [id |-> 0, createdBy |-> 0]
FindOrder(id) == IF \E o \in orders : o.id = id
                 THEN CHOOSE o \in orders : o.id = id
                 ELSE NoOrder

GetOrderById(h, id) ==
  LET auth == authenticateToken(h)
      req == [header |-> h, id |-> id]
      order == FindOrder(id)
  IN /\ IF auth.status # 0
        THEN resp' = Reply("getOrder", auth.status, auth.error, NoUser, req, <<>>)
        ELSE IF order = NoOrder
        THEN resp' = Reply("getOrder", 404, "Order not found", auth.user, req, <<>>)
        ELSE IF ~CashierScope(auth.user, order)
        THEN resp' = Reply("getOrder", 403, "Access denied to this order", auth.user, req, <<>>)
        ELSE resp' = Reply("getOrder", 200, "", auth.user, req, Formatted(order))
     /\ UNCHANGED <<users, issued, menu, orders, orderItems, lineCount,
                    nextUserId, nextMenuId, nextOrderId, cur, now>>

RECURSIVE SumTotals(_)
SumTotals(S) ==
  IF S = {} THEN 0
  ELSE LET o == CHOOSE x \in S : TRUE IN o.total + SumTotals(S \ {o})

\* the summary of my-performance and today-summary; the average is the
\* fraction sales / count, 0 when there is no order
Summary(S) ==
  [total_orders |-> Cardinality(S),
   total_sales |-> SumTotals(S),
   average_order_value |-> IF Cardinality(S) > 0
                           THEN [num |-> SumTotals(S), den |-> Cardinality(S)]
                           ELSE [num |-> 0, den |-> 1],
   dine_in_orders |-> Cardinality({o \in S : o.orderType = "Dine_In"}),
   takeaway_orders |-> Cardinality({o \in S : o.orderType = "Take_Away"})]

\* t >= now - days * DayLen, computed day by day to stay inside 32 bits
NotOlderThan(days, t) ==
  \/ (now - t) \div DayLen < days
  \/ (now - t) \div DayLen = days /\ (now - t) % DayLen = 0

\* the given window, else the last 30 days
InPerformanceWindow(w, o) ==
  IF w.given THEN InDates(w, o) ELSE NotOlderThan(PerformanceDays, o.createdAt)

MyPerformance(h, w) ==
  LET auth == authenticateToken(h)
      gate == requireRole({"cashier"}, auth.user)
      req == [header |-> h, window |-> w]
      matched == {o \in orders : o.createdBy = auth.user.id /\ InPerformanceWindow(w, o)}
  IN /\ IF auth.status # 0
        THEN resp' = Reply("myPerformance", auth.status, auth.error, NoUser, req, <<>>)
        ELSE IF gate.status # 0
        THEN resp' = Reply("myPerformance", gate.status, gate.error, auth.user, req, <<>>)
        ELSE resp' = Reply("myPerformance", 200, "", auth.user, req, Summary(matched))
     /\ UNCHANGED <<users, issued, menu, orders, orderItems, lineCount,
                    nextUserId, nextMenuId, nextOrderId, cur, now>>

\* today.setHours(0, 0, 0, 0)
Midnight(t) == t - (t % DayLen)

TodaySummary(h) ==
  LET auth == authenticateToken(h)
      req == [header |-> h]
      today == Midnight(now)
      tomorrow == today + DayLen
      matched == {o \in orders : /\ today <= o.createdAt /\ o.createdAt < tomorrow
                                 /\ CashierScope(auth.user, o)}
  IN /\ IF auth.status # 0
        THEN resp' = Reply("todaySummary", auth.status, auth.error, NoUser, req, <<>>)
        ELSE resp' = Reply("todaySummary", 200, "", auth.user, req, Summary(matched))
     /\ UNCHANGED <<users, issued, menu, orders, orderItems, lineCount,
                    nextUserId, nextMenuId, nextOrderId, cur, now>>

\* a second cashier, registered through POST /auth/register
SecondCashier == [id |-> 3, username |-> S_lee, email |-> E_lee,
                  password |-> Hash(P_good), role |-> "cashier", status |-> "active"]

\* everyone logged in at noon of the first day
Noon == DayLen \div 2
SessionOf(u) == Jwt(u.id, u.role, Noon + TokenTtl, "good")

InitAccess ==
  /\ users = {SeedAdmin, SeedCashier, SecondCashier}
  /\ nextUserId = 4
  /\ issued = {SessionOf(SeedAdmin), SessionOf(SeedCashier), SessionOf(SecondCashier)}
  /\ menu = {SeedNasi}
  /\ nextMenuId = 2
  /\ orders = {}
  /\ orderItems = {}
  /\ lineCount = <<>>
  /\ nextOrderId = 1
  /\ cur = Idle
  /\ now = Noon
  /\ resp = NoReply

TypedOrder(orderType) ==
  [customerName |-> "Budi", orderType |-> orderType, items |-> <<Line(1, 1)>>,
   amountPaid |-> 3000]

Windows == {NoWindow, Window(0, Noon)}

NextAccess ==
  \/ \E h \in Sessions, t \in OrderTypes : CreateOrderBegin(h, TypedOrder(t))
  \/ CreateOrderLookup
  \/ CreateOrderPersist(TRUE)
  \/ \E h \in Sessions, page \in {1, 2}, limit \in {1, DefaultLimit}, w \in Windows :
       GetOrders(h, page, limit, w)
  \/ \E h \in Sessions, id \in 1..MaxOrders : GetOrderById(h, id)
  \/ \E h \in Sessions, w \in Windows : MyPerformance(h, w)
  \/ \E h \in Sessions : TodaySummary(h)
  \/ Tick(Noon)

SpecAccess == InitAccess /\ [][NextAccess]_vars

(***************************************************************************)
(* Claims on authentication and registration                               *)
(***************************************************************************)
\* the operations mounted behind router.use(authenticateToken)
GuardedOps == {"getUsers", "getUser", "menuCreate", "menuUpdate", "menuDelete",
               "getOrders", "getOrder", "createOrder", "myPerformance", "todaySummary"}
\* the operations that read a bearer credential
BearerOps == GuardedOps \cup {"me"}
AuthErrors == {"Access token required", "Invalid or expired token", "User not found or inactive"}
Success(status) == status \in 200..299

\* C6: a user whose status is not active never gets a 2xx answer from an
\* endpoint that takes a bearer credential (GET /auth/me included), and never
\* gets a token from POST /auth/login.
C6_InactiveNeverServed ==
  /\ (resp.op \in BearerOps /\ Success(resp.status))
       => FindUser(resp.req.header.token.userId).status = "active"
  /\ (resp.op = "login" /\ Success(resp.status))
       => FindUserByEmail(resp.req.body.email).status = "active"

C9_UniqueUsers ==
  /\ \A u1, u2 \in users :
       (u1.username = u2.username \/ u1.email = u2.email) => u1 = u2
  /\ \A u1, u2 \in users : u1.id = u2.id => u1 = u2
  /\ resp.op = "register" =>
       LET body == resp.req.body
           taken(f) == /\ Given(body, f)
                       /\ \E u \in users : u.id # resp.user.id /\ u[f] = body[f]
       IN /\ (taken("username") \/ taken("email")) => resp.status = 400 /\ resp.user = NoUser
          /\ (resp.status = 400 /\ resp.error = "already exists") => taken(resp.body)
          /\ ((taken("username") \/ taken("email")) /\ validateInput(body) = <<>>
                /\ Given(body, "password") /\ GivenAtom(body, "role")
                /\ Given(body, "username") /\ Given(body, "email"))
               => resp.error = "already exists"

\* a second registration with the seeded administrator's email is refused
C9_Witness ==
  /\ resp.op = "register"
  /\ resp.status = 400
  /\ resp.error = "already exists"
  /\ resp.body = "email"
  /\ resp.req.body.username # S_admin
  /\ Cardinality(users) >= 2

(***************************************************************************)
(* Claims on the menu routes and the validators                            *)
(***************************************************************************)
MenuWriteOps == {"menuCreate", "menuUpdate", "menuDelete"}

\* the stored user a request's credential stands for, when it verifies
Requester(r) ==
  LET t == TokenOf(r.req.header)
  IN IF TruthyToken(t) /\ Verifies(t) THEN FindUser(t.userId) ELSE NoUser

\* C8: a menu create, update or delete by an authenticated user whose role is
\* not admin is answered 403 whatever the payload (the role gate runs after
\* authentication and before validation and persistence), and it leaves the
\* MenuItem rows as they were.
C8_NonAdminMenuWrite ==
  /\ [](resp.op \in MenuWriteOps =>
          /\ (Requester(resp).status = "active" /\ Requester(resp).role # "admin")
               => resp.status = 403 /\ resp.error = "Insufficient permissions"
          /\ resp.error = "Insufficient permissions" => Requester(resp).status = "active")
  /\ [][(resp'.op \in MenuWriteOps /\ resp'.user.role # "admin")
          => menu' = menu /\ nextMenuId' = nextMenuId]_vars

\* a cashier's update with a payload the validator would refuse is stopped by
\* the role gate first
C8_Witness ==
  /\ resp.op = "menuUpdate"
  /\ Requester(resp).role = "cashier"
  /\ validateMenuItem(resp.req.body) # <<>>
  /\ resp.status = 403
  /\ menu # {}

\* the rules of the two validators, field by field
Violates(f, v) ==
  CASE f = "email" -> ~isEmail(v)
    [] f = "username" -> Len(v) < MinUsernameLen
    [] f = "password" -> Len(v) < MinPasswordLen
    [] f = "role" -> v \notin Roles
    [] f = "name" -> Len(Trim(v)) = 0
    [] f = "category" -> v \notin Categories
    [] f = "price" -> v.nan \/ v.val <= 0

RuleFields(op) == IF op \in {"register", "login"}
                  THEN {"email", "username", "password", "role"}
                  ELSE {"name", "category", "price"}

\* a field counts as present when the payload carries it with a value other
\* than the empty string
Present(body, f) ==
  /\ Has(body, f)
  /\ IF f \in {"role", "category"} THEN body[f] # ""
     ELSE IF f = "price" THEN TRUE
     ELSE body[f] # Empty

\* C10: the validator reports every violated rule among the fields present in
\* the payload in one 400 response (one {field, message} entry per violating
\* field, none for the others) and calls the handler only when no present
\* field violates its rule.
C10_ValidatorReportsAll ==
  LET ran == \/ resp.op \in {"register", "login"}
             \/ /\ resp.op \in {"menuCreate", "menuUpdate"}
                /\ resp.error \notin AuthErrors \cup {"Insufficient permissions"}
      body == resp.req.body
      V == {f \in DOMAIN body \cap RuleFields(resp.op) :
              Present(body, f) /\ Violates(f, body[f])}
  IN ran =>
       /\ V # {} => /\ resp.status = 400
                    /\ resp.error = "validation"
                    /\ {resp.body[i].field : i \in 1..Len(resp.body)} = V
                    /\ Len(resp.body) = Cardinality(V)
       /\ V = {} => resp.error # "validation"

(***************************************************************************)
(* Claims on POST /orders                                                  *)
(***************************************************************************)
ItemsOf(id) == {it \in orderItems : it.orderId = id}

RECURSIVE SumLineTotals(_)
SumLineTotals(S) ==
  IF S = {} THEN 0
  ELSE LET it == CHOOSE x \in S : TRUE IN it.lineTotal + SumLineTotals(S \ {it})

RECURSIVE SumSeq(_)
SumSeq(q) == IF q = <<>> THEN 0 ELSE Head(q).menuItemPrice * Head(q).quantity + SumSeq(Tail(q))

\* a step of the item loop that resolves a line
Resolves == cur.pc = "lookup" /\ Len(cur'.orderItems) = Len(cur.orderItems) + 1

\* C1: for every persisted order, subtotal is the sum over its lines of the
\* menu price at lookup times the requested quantity, each lineTotal is
\* menuItemPrice x quantity, tax is subtotal x 0.05 (tax x 100 = subtotal x 5)
\* and total is subtotal + tax.
C1_OrderTotals ==
  /\ [](\A o \in orders :
          /\ o.subtotal = SumLineTotals(ItemsOf(o.id))
          /\ \A it \in ItemsOf(o.id) : it.lineTotal = it.menuItemPrice * it.quantity
          /\ o.tax * 100 = o.subtotal * TaxRatePct
          /\ o.total = o.subtotal + o.tax)
  /\ [][Resolves =>
          LET k == Len(cur'.orderItems)
              line == cur.body.items[k]
              snap == cur'.orderItems[k]
          IN /\ snap.menuItemId = line.menuItemId
             /\ snap.quantity = line.quantity
             /\ snap.menuItemPrice = FindMenuItem(line.menuItemId).price]_vars
  /\ [][(cur.pc = "persist" /\ resp'.status = 201) =>
          /\ {it \in orderItems' : it.orderId = nextOrderId} = ItemRows(nextOrderId, cur.orderItems)
          /\ Len(cur.orderItems) = Len(cur.body.items)
          /\ \E o \in orders' : o.id = nextOrderId /\ o.subtotal = SumSeq(cur.orderItems)]_vars

\* the spec's round trip: A x 2 and B x 1 at 10.00 and 5.00 persist as
\* subtotal 25.00, tax 1.25, total 26.25, and 30.00 paid leaves 3.75
C1_Witness ==
  \E o \in orders :
    /\ Cardinality(ItemsOf(o.id)) = 2
    /\ o.subtotal = 2500 /\ o.tax = 125 /\ o.total = 2625
    /\ o.amountPaid = 3000 /\ o.changeAmount = 375

\* C2: a request that passes the required-field check and whose lines all
\* resolve is answered InsufficientPayment (400 with required and provided)
\* exactly when amountPaid < total; otherwise it goes on to the create, and
\* the order it persists has changeAmount = amountPaid - total.  No persisted
\* order has a negative changeAmount or amountPaid < total.
C2_Payment ==
  /\ [](\A o \in orders :
          /\ o.changeAmount = o.amountPaid - o.total
          /\ o.changeAmount >= 0
          /\ o.amountPaid >= o.total)
  /\ []((resp.op = "createOrder" /\ resp.error = "Insufficient payment amount") =>
          /\ resp.status = 400
          /\ resp.body.provided = resp.req.body.amountPaid
          /\ resp.body.required * 100 = SumSeq(resp.body.lines) * (100 + TaxRatePct)
          /\ resp.body.provided < resp.body.required)
  /\ [][(Resolves /\ Len(cur'.orderItems) = Len(cur.body.items)) =>
          /\ cur'.pc = "persist"
          /\ resp'.error # "Insufficient payment amount"
          /\ cur.body.amountPaid * 100 >= SumSeq(cur'.orderItems) * (100 + TaxRatePct)
          /\ cur'.data.changeAmount = cur.body.amountPaid - cur'.data.total]_vars
  /\ [][(cur.pc = "lookup" /\ cur'.pc = "idle"
          /\ resp'.error # "not found or unavailable") =>
          resp'.error = "Insufficient payment amount"]_vars
  /\ [][(cur.pc = "persist" /\ resp'.status = 201) =>
          \E o \in orders' : /\ o.id = nextOrderId
                             /\ o.amountPaid = cur.body.amountPaid
                             /\ o.changeAmount = cur.body.amountPaid - o.total]_vars

\* 20.00 tendered for the 26.25 order is refused while an order paid exactly
\* is on record
C2_Witness ==
  /\ resp.op = "createOrder"
  /\ resp.error = "Insufficient payment amount"
  /\ resp.body.required = 2625
  /\ resp.body.provided = 2000
  /\ \E o \in orders : o.amountPaid = o.total

\* C3: a request with a line whose menu item does not exist or is not
\* available when it is looked up is answered 400, whatever the position of
\* that line, and no step of a request before its create adds or removes an
\* Order or OrderItem row.
C3_NoPartialOrder ==
  /\ [][cur.pc # "persist" => orders' = orders /\ orderItems' = orderItems]_vars
  /\ [][(resp'.op = "createOrder" /\ resp'.status = 400)
          => orders' = orders /\ orderItems' = orderItems]_vars
  /\ [][(cur.pc = "lookup" /\ cur' # cur) =>
          LET line == cur.body.items[Len(cur.orderItems) + 1]
              m == FindMenuItem(line.menuItemId)
          IN (m = NoItem \/ ~m.isAvailable)
               => /\ resp'.status = 400
                  /\ resp'.error = "not found or unavailable"
                  /\ cur'.pc = "idle"]_vars

\* the bad line is the second one, after a line that resolved
C3_Witness ==
  /\ resp.op = "createOrder"
  /\ resp.status = 400
  /\ resp.error = "not found or unavailable"
  /\ resp.body.line = 2
  /\ FindMenuItem(resp.body.menuItemId) # NoItem
  /\ orders # {}

\* C4: in every state an Order row is there exactly when all the OrderItem
\* rows of its create are there: no order with some of its lines missing, no
\* line without its order, also after a create that failed.
C4_AllOrNothing ==
  /\ \A o \in orders :
       /\ o.id \in DOMAIN lineCount
       /\ lineCount[o.id] >= 1
       /\ Cardinality(ItemsOf(o.id)) = lineCount[o.id]
  /\ \A it \in orderItems : \E o \in orders : o.id = it.orderId
  /\ \A id \in DOMAIN lineCount :
       (\E o \in orders : o.id = id) \/ ItemsOf(id) = {}

\* a create has failed after another one committed its two lines
C4_Witness ==
  /\ resp.op = "createOrder"
  /\ resp.status = 500
  /\ \E o \in orders : Cardinality(ItemsOf(o.id)) = 2
  /\ \E id \in DOMAIN lineCount : ~\E o \in orders : o.id = id

(***************************************************************************)
(* Claims on reading orders                                                *)
(***************************************************************************)
Own(u) == {o \in orders : o.createdBy = u.id}
Today == {o \in orders : Midnight(now) <= o.createdAt /\ o.createdAt < Midnight(now) + DayLen}
InWindow(w) == {o \in orders : w.given => (w.startDate <= o.createdAt /\ o.createdAt <= w.endDate)}
Listed(r) == {r.body.orders[k].order : k \in 1..Len(r.body.orders)}

\* C5: for a cashier, every order returned by GET /orders, GET /orders/:id,
\* my-performance and today-summary, or counted in their summaries and in
\* the pagination total, was created by that cashier, and GET /orders/:id of
\* another user's order is answered 403.  For an admin no order is left out
\* on account of its creator.
C5_CashierSeesOwnOnly ==
  LET u == Requester(resp)
      served == resp.status = 200
  IN /\ (resp.op = "getOrders" /\ served /\ u.role = "cashier") =>
          /\ Listed(resp) \subseteq Own(u) \cap InWindow(resp.req.window)
          /\ resp.body.pagination.total = Cardinality(Own(u) \cap InWindow(resp.req.window))
     /\ (resp.op = "getOrders" /\ served /\ u.role = "admin") =>
          /\ resp.body.pagination.total = Cardinality(InWindow(resp.req.window))
          /\ (resp.req.page = 1 /\ resp.req.limit >= Cardinality(orders))
               => Listed(resp) = InWindow(resp.req.window)
     /\ (resp.op = "getOrder" /\ u.status = "active" /\ FindOrder(resp.req.id) # NoOrder) =>
          IF u.role = "cashier" /\ FindOrder(resp.req.id).createdBy # u.id
          THEN resp.status = 403
          ELSE served /\ resp.body.order = FindOrder(resp.req.id)
     /\ (resp.op = "myPerformance" /\ served) =>
          /\ u.role = "cashier"
          /\ resp.body.total_orders
               = Cardinality({o \in Own(u) : InPerformanceWindow(resp.req.window, o)})
          /\ resp.body.total_sales
               = SumTotals({o \in Own(u) : InPerformanceWindow(resp.req.window, o)})
     /\ (resp.op = "todaySummary" /\ served) =>
          /\ resp.body.total_orders
               = Cardinality(IF u.role = "cashier" THEN Own(u) \cap Today ELSE Today)
          /\ resp.body.total_sales
               = SumTotals(IF u.role = "cashier" THEN Own(u) \cap Today ELSE Today)

\* a cashier lists orders while another cashier's order is on record
C5_Witness ==
  /\ resp.op = "getOrders"
  /\ resp.status = 200
  /\ Requester(resp).role = "cashier"
  /\ Len(resp.body.orders) >= 1
  /\ \E o \in orders : o.createdBy # Requester(resp).id /\ o \in InWindow(resp.req.window)

(***************************************************************************)
(* Report routes: GET /reports/daily-sales, menu-sales, top-selling,       *)
(* revenue-by-type (all behind requireRole(["admin"]))                     *)
(***************************************************************************)
SalesDays == 7
TopDefaultLimit == 10

\* the window of the query string, else the last `days` days
InReportWindow(w, days, o) ==
  IF w.given THEN InDates(w, o) ELSE NotOlderThan(days, o.createdAt)

\* the enumerations of a finite set
Orderings(S) ==
  {q \in [1..Cardinality(S) -> S] : \A i, j \in 1..Cardinality(S) : i # j => q[i] # q[j]}

\* createdAt.toISOString().split("T")[0], with the instant as the key
DateKey_Instant(o) == o.createdAt

\* createdAt.toISOString().split("T")[0]: the calendar day, as a day number
DateKey(o) == o.createdAt \div DayLen

\* dailyStats after the forEach
DailyStats(S) ==
  {[sale_date |-> d,
    total_orders |-> Cardinality({o \in S : DateKey(o) = d}),
    total_revenue |-> SumTotals({o \in S : DateKey(o) = d}),
    dine_in_orders |-> Cardinality({o \in S : DateKey(o) = d /\ o.orderType = "Dine_In"}),
    takeaway_orders |-> Cardinality({o \in S : DateKey(o) = d /\ o.orderType = "Take_Away"})]
   : d \in {DateKey(o) : o \in S}}

DailySales(h, w) ==
  LET auth == authenticateToken(h)
      gate == requireRole({"admin"}, auth.user)
      req == [header |-> h, window |-> w]
      matched == {o \in orders : InReportWindow(w, SalesDays, o)}
      stats == DailyStats(matched)
  IN /\ IF auth.status # 0
        THEN resp' = Reply("dailySales", auth.status, auth.error, NoUser, req, <<>>)
        ELSE IF gate.status # 0
        THEN resp' = Reply("dailySales", gate.status, gate.error, auth.user, req, <<>>)
        ELSE \E q \in Orderings(stats) :
               /\ \A i, j \in 1..Len(q) : i < j => q[i].sale_date >= q[j].sale_date
               /\ resp' = Reply("dailySales", 200, "", auth.user, req, q)
     /\ UNCHANGED <<users, issued, menu, orders, orderItems, lineCount,
                    nextUserId, nextMenuId, nextOrderId, cur, now>>

\* Math.round(count / total * 100 * 100) / 100 cut off instead of rounded
Percentage_Truncated(count, total) == (count * 10000) \div total

\* Math.round(count / total * 100 * 100) / 100, in hundredths of a percent;
\* Math.round(x) is floor(x + 1/2)
Percentage(count, total) == (2 * count * 10000 + total) \div (2 * total)

\* typeStats after the forEach, mapped to the entries of the response
TypeStats(S) ==
  {[order_type |-> t,
    total_orders |-> Cardinality({o \in S : o.orderType = t}),
    total_revenue |-> SumTotals({o \in S : o.orderType = t}),
    average_order_value |-> IF Cardinality({o \in S : o.orderType = t}) > 0
                            THEN [num |-> SumTotals({o \in S : o.orderType = t}),
                                  den |-> Cardinality({o \in S : o.orderType = t})]
                            ELSE [num |-> 0, den |-> 1],
    percentage |-> IF Cardinality(S) > 0
                   THEN Percentage(Cardinality({o \in S : o.orderType = t}), Cardinality(S))
                   ELSE 0]
   : t \in {o.orderType : o \in S}}

RevenueByType(h, w) ==
  LET auth == authenticateToken(h)
      gate == requireRole({"admin"}, auth.user)
      req == [header |-> h, window |-> w]
      matched == {o \in orders : InReportWindow(w, PerformanceDays, o)}
  IN /\ IF auth.status # 0
        THEN resp' = Reply("revenueByType", auth.status, auth.error, NoUser, req, <<>>)
        ELSE IF gate.status # 0
        THEN resp' = Reply("revenueByType", gate.status, gate.error, auth.user, req, <<>>)
        ELSE \E q \in Orderings(TypeStats(matched)) :
               /\ \A i, j \in 1..Len(q) : i < j => q[i].total_revenue >= q[j].total_revenue
               /\ resp' = Reply("revenueByType", 200, "", auth.user, req, q)
     /\ UNCHANGED <<users, issued, menu, orders, orderItems, lineCount,
                    nextUserId, nextMenuId, nextOrderId, cur, now>>

RECURSIVE SumOf(_, _)
SumOf(S, f) ==
  IF S = {} THEN 0
  ELSE LET x == CHOOSE y \in S : TRUE IN x[f] + SumOf(S \ {x}, f)

\* prisma.orderItem.findMany({where: {order: {createdAt: ...}}})
ItemsIn(w) ==
  {it \in orderItems :
     \E o \in orders : o.id = it.orderId /\ InReportWindow(w, PerformanceDays, o)}

\* include: {menuItem: ...}: the row the line refers to now, null when it is gone
Joined(it) == FindMenuItem(it.menuItemId)

\* menuStats after the forEach, keyed by `${item.menuItem.name}-${item.menuItem.category}`
MenuStats(I) ==
  {[name |-> k[1], category |-> k[2],
    total_sold |-> SumOf({it \in I : <<Joined(it).name, Joined(it).category>> = k}, "quantity"),
    total_sales |-> SumOf({it \in I : <<Joined(it).name, Joined(it).category>> = k}, "lineTotal")]
   : k \in {<<Joined(it).name, Joined(it).category>> : it \in I}}

MenuSales(h, w) ==
  LET auth == authenticateToken(h)
      gate == requireRole({"admin"}, auth.user)
      req == [header |-> h, window |-> w]
      I == ItemsIn(w)
  IN /\ IF auth.status # 0
        THEN resp' = Reply("menuSales", auth.status, auth.error, NoUser, req, <<>>)
        ELSE IF gate.status # 0
        THEN resp' = Reply("menuSales", gate.status, gate.error, auth.user, req, <<>>)
        ELSE IF \E it \in I : Joined(it) = NoItem
        THEN resp' = Reply("menuSales", 500, "Failed to generate menu sales report",
                           auth.user, req, <<>>)
        ELSE \E q \in Orderings(MenuStats(I)) :
               /\ \A i, j \in 1..Len(q) : i < j => q[i].total_sold >= q[j].total_sold
               /\ resp' = Reply("menuSales", 200, "", auth.user, req, q)
     /\ UNCHANGED <<users, issued, menu, orders, orderItems, lineCount,
                    nextUserId, nextMenuId, nextOrderId, cur, now>>

\* const {limit = 10} = req.query
NoLimit == [given |-> FALSE, value |-> 0]
Limit(n) == [given |-> TRUE, value |-> n]
LimitOf(l) == IF l.given THEN l.value ELSE TopDefaultLimit

\* slice(0, n) taking one entry too many
Slice_OneMore(q, n) == SubSeq(q, 1, Min(n + 1, Len(q)))

\* Array.prototype.slice(0, n)
Slice(q, n) ==
  IF n >= 0 THEN SubSeq(q, 1, Min(n, Len(q)))
  ELSE SubSeq(q, 1, Max(0, Len(q) + n))

\* the entries itemStats can hold for the lines I: one per menuItem.name, its
\* category and price those of the first line met with that name
ItemEntries(I) ==
  {[name |-> m.name, category |-> m.category, price |-> m.price,
    total_sold |-> SumOf({it \in I : Joined(it).name = m.name}, "quantity"),
    total_revenue |-> SumOf({it \in I : Joined(it).name = m.name}, "lineTotal")]
   : m \in {Joined(it) : it \in I}}

\* Object.values(itemStats), in the order the names were first met
ItemStats(I) ==
  LET names == {Joined(it).name : it \in I}
  IN {q \in [1..Cardinality(names) -> ItemEntries(I)] :
        \A i, j \in 1..Cardinality(names) : i # j => q[i].name # q[j].name}

TopSelling(h, l, w) ==
  LET auth == authenticateToken(h)
      gate == requireRole({"admin"}, auth.user)
      req == [header |-> h, limit |-> l, window |-> w]
      I == ItemsIn(w)
  IN /\ IF auth.status # 0
        THEN resp' = Reply("topSelling", auth.status, auth.error, NoUser, req, <<>>)
        ELSE IF gate.status # 0
        THEN resp' = Reply("topSelling", gate.status, gate.error, auth.user, req, <<>>)
        ELSE IF \E it \in I : Joined(it) = NoItem
        THEN resp' = Reply("topSelling", 500, "Failed to generate top selling report",
                           auth.user, req, <<>>)
        ELSE \E q \in ItemStats(I) :
               /\ \A i, j \in 1..Len(q) : i < j => q[i].total_sold >= q[j].total_sold
               /\ resp' = Reply("topSelling", 200, "", auth.user, req, Slice(q, LimitOf(l)))
     /\ UNCHANGED <<users, issued, menu, orders, orderItems, lineCount,
                    nextUserId, nextMenuId, nextOrderId, cur, now>>

(***************************************************************************)
(* A database with a sales history, read by the reports while the          *)
(* administrator edits the menu                                            *)
(***************************************************************************)
MaxHistory == 3

\* the instant of the reports: noon of the ninth day
ReportNow == 8 * DayLen + Noon
ReportSession(u) == Jwt(u.id, u.role, ReportNow + TokenTtl, "good")

SeedItem(id) == IF id = SeedNasi.id THEN SeedNasi ELSE SeedTeh

\* a line as POST /orders snapshots it
Snapshot(m, quantity) ==
  [menuItemId |-> m.id, menuItemName |-> m.name, menuItemPrice |-> m.price,
   quantity |-> quantity, lineTotal |-> LineTotal(m.price, quantity)]

PastLines(items) ==
  [k \in 1..Len(items) |-> Snapshot(SeedItem(items[k].menuItemId), items[k].quantity)]

RECURSIVE SumLines(_)
SumLines(q) == IF q = <<>> THEN 0 ELSE Head(q).lineTotal + SumLines(Tail(q))

\* the Order row of a sale made at time t by the seeded cashier, paid exactly
PastOrder(id, t, orderType, items) ==
  LET subtotal == SumLines(PastLines(items))
  IN [id |-> id, orderNumber |-> t % OrderNumberModulus, customerName |-> "Budi",
      orderType |-> orderType, subtotal |-> subtotal, tax |-> TaxOf(subtotal),
      total |-> subtotal + TaxOf(subtotal), amountPaid |-> subtotal + TaxOf(subtotal),
      changeAmount |-> 0, createdBy |-> SeedCashier.id, createdAt |-> t]

PastTimes == {0, Noon, 8 * DayLen}
PastSales == {[orderType |-> "Dine_In", items |-> <<Line(1, 2), Line(2, 1)>>],
              [orderType |-> "Take_Away", items |-> <<Line(2, 3)>>],
              [orderType |-> "Dine_In", items |-> <<Line(2, 1)>>]}

InitReport ==
  /\ users = {SeedAdmin, SeedCashier}
  /\ nextUserId = 3
  /\ issued = {ReportSession(SeedAdmin), ReportSession(SeedCashier)}
  /\ menu = {SeedNasi, SeedTeh}
  /\ nextMenuId = 3
  /\ \E n \in 0..MaxHistory :
       \E at \in [1..n -> PastTimes], sale \in [1..n -> PastSales] :
         /\ \A i, j \in 1..n : i < j => at[i] <= at[j]
         /\ orders = {PastOrder(i, at[i], sale[i].orderType, sale[i].items) : i \in 1..n}
         /\ orderItems = UNION {ItemRows(i, PastLines(sale[i].items)) : i \in 1..n}
         /\ lineCount = [i \in 1..n |-> Len(sale[i].items)]
         /\ nextOrderId = n + 1
  /\ cur = Idle
  /\ now = ReportNow
  /\ resp = NoReply

ReportWindows == {NoWindow, Window(Noon, 8 * DayLen)}
DailyWindows == ReportWindows \cup {Window(0, 8 * DayLen)}
Limits == {NoLimit, Limit(0), Limit(1)}
ReportEdits == {[name |-> N_teh], [category |-> "Desserts"], [price |-> PNum(2000)]}

NextReport ==
  \/ \E h \in Sessions, w \in DailyWindows : DailySales(h, w)
  \/ \E w \in ReportWindows : RevenueByType(Bearer(ReportSession(SeedAdmin)), w)
  \/ \E w \in ReportWindows : MenuSales(Bearer(ReportSession(SeedAdmin)), w)
  \/ \E l \in Limits, w \in ReportWindows : TopSelling(Bearer(ReportSession(SeedAdmin)), l, w)
  \/ \E body \in ReportEdits : MenuUpdate(Bearer(ReportSession(SeedAdmin)), SeedNasi.id, body)
  \/ MenuDelete(Bearer(ReportSession(SeedAdmin)), SeedTeh.id, TRUE)

SpecReport == InitReport /\ [][NextReport]_vars

(***************************************************************************)
(* The order ledger: orders taken, with lines of any quantity, while the   *)
(* administrator renames, reprices and deletes menu items                  *)
(***************************************************************************)
LedgerItems == {<<Line(1, 1), Line(2, 1)>>, <<Line(1, 0)>>, <<Line(2, -1), Line(1, 2)>>}
LedgerEdits == {[name |-> N_padded], [price |-> PNum(2000)]}

NextLedger ==
  \/ \E items \in LedgerItems :
       CreateOrderBegin(Bearer(CashierToken), OrderBody(OrderFields, items, 3000))
  \/ CreateOrderLookup
  \/ \E dbOk \in BOOLEAN : CreateOrderPersist(dbOk)
  \/ \E id \in 1..MaxMenu, body \in LedgerEdits : MenuUpdate(Bearer(AdminToken), id, body)
  \/ \E id \in 1..MaxMenu, dbOk \in BOOLEAN : MenuDelete(Bearer(AdminToken), id, dbOk)

SpecLedger == InitOrder /\ [][NextLedger]_vars

(***************************************************************************)
(* Order numbers: orders taken a millisecond and a million milliseconds    *)
(* apart                                                                   *)
(***************************************************************************)
MaxMillis == 1

Elapse(d) ==
  /\ now + d <= OrderNumberModulus + MaxMillis
  /\ (now + d) % OrderNumberModulus <= MaxMillis
  /\ now' = now + d
  /\ resp' = NoReply
  /\ UNCHANGED <<users, issued, menu, orders, orderItems, lineCount,
                 nextUserId, nextMenuId, nextOrderId, cur>>

NextNumber ==
  \/ \E t \in OrderTypes : CreateOrderBegin(Bearer(CashierToken), TypedOrder(t))
  \/ CreateOrderLookup
  \/ \E dbOk \in BOOLEAN : CreateOrderPersist(dbOk)
  \/ \E d \in {1, OrderNumberModulus} : Elapse(d)

SpecNumber == InitOrder /\ [][NextNumber]_vars

(***************************************************************************)
(* Claims on the reports                                                   *)
(***************************************************************************)
RECURSIVE SumField(_, _)
SumField(q, f) == IF q = <<>> THEN 0 ELSE Head(q)[f] + SumField(Tail(q), f)

Abs(x) == IF x >= 0 THEN x ELSE -x

\* the request was made by an active administrator
ByAdmin(r) == Requester(r).status = "active" /\ Requester(r).role = "admin"

\* C11: in the revenue-by-type report each group's total_orders is the number
\* of orders of that type in the window and the groups' total_orders sum to
\* the number of orders in the window; each percentage (in hundredths of a
\* percent) is 100 x count / total rounded to 2 decimals, and the percentages
\* of the groups sum to 100 within 0.005 per group; with no order in the
\* window the answer is a success with no group.
C11_RevenueByType ==
  (resp.op = "revenueByType" /\ ByAdmin(resp)) =>
    LET W == {o \in orders : InReportWindow(resp.req.window, PerformanceDays, o)}
        q == resp.body
    IN /\ resp.status = 200
       /\ \A i \in 1..Len(q) :
            /\ q[i].total_orders = Cardinality({o \in W : o.orderType = q[i].order_type})
            /\ q[i].total_orders > 0
            /\ 2 * Abs(q[i].percentage * Cardinality(W) - 10000 * q[i].total_orders)
                 <= Cardinality(W)
       /\ \A i, j \in 1..Len(q) : i # j => q[i].order_type # q[j].order_type
       /\ {q[i].order_type : i \in 1..Len(q)} = {o.orderType : o \in W}
       /\ SumField(q, "total_orders") = Cardinality(W)
       /\ W # {} => 2 * Abs(SumField(q, "percentage") - 10000) <= Len(q)
       /\ W = {} => q = <<>>

\* three orders in the window, two of one type: 66.67% and 33.33%
C11_Witness ==
  /\ resp.op = "revenueByType"
  /\ resp.status = 200
  /\ Len(resp.body) = 2
  /\ \E i \in 1..Len(resp.body) : resp.body[i].percentage = 6667
  /\ \E i \in 1..Len(resp.body) : resp.body[i].percentage = 3333

\* C12: the daily-sales report has exactly one entry for each calendar day
\* with an order in the window; the entry counts the orders of that day, sums
\* their totals, and its dine-in and takeaway counts add up to its count; the
\* counts of all entries add up to the number of orders in the window; the
\* entries are in strictly descending date order; a window without orders is
\* answered with a success and an empty list.
C12_DailySales ==
  (resp.op = "dailySales" /\ ByAdmin(resp)) =>
    LET W == {o \in orders : InReportWindow(resp.req.window, SalesDays, o)}
        q == resp.body
        OnDay(d) == {o \in W : o.createdAt \div DayLen = d}
    IN /\ resp.status = 200
       /\ \A o \in W : Cardinality({i \in 1..Len(q) : o \in OnDay(q[i].sale_date)}) = 1
       /\ \A i \in 1..Len(q) :
            /\ q[i].total_orders = Cardinality(OnDay(q[i].sale_date))
            /\ q[i].total_orders > 0
            /\ q[i].total_revenue = SumTotals(OnDay(q[i].sale_date))
            /\ q[i].dine_in_orders + q[i].takeaway_orders = q[i].total_orders
       /\ SumField(q, "total_orders") = Cardinality(W)
       /\ \A i, j \in 1..Len(q) : i < j => q[i].sale_date > q[j].sale_date
       /\ W = {} => q = <<>>

\* two days in the window, one of them with two orders made at different times
C12_Witness ==
  /\ resp.op = "dailySales"
  /\ resp.status = 200
  /\ Len(resp.body) = 2
  /\ \E i \in 1..Len(resp.body) : resp.body[i].total_orders = 2
  /\ \E o1, o2 \in orders : /\ o1.createdAt # o2.createdAt
                            /\ o1.createdAt \div DayLen = o2.createdAt \div DayLen
                            /\ InDates(resp.req.window, o1) /\ InDates(resp.req.window, o2)

MenuSalesGroups(w) == MenuStats(ItemsIn(w))
TopSellingGroups(w) ==
  {[name |-> e.name, category |-> e.category,
    total_sold |-> e.total_sold, total_sales |-> e.total_revenue] : e \in ItemEntries(ItemsIn(w))}

\* C19: with the persisted orders and the window fixed, a menu item edit
\* (rename, category change, price change) leaves the groups of the
\* menu-sales and top-selling reports as they were: sales stay under the name
\* captured at order time.
C19_ReportsKeepHistory ==
  [][(resp'.op = "menuUpdate" /\ resp'.status = 200
        /\ orders' = orders /\ orderItems' = orderItems /\ now' = now) =>
       \A w \in ReportWindows :
         /\ MenuSalesGroups(w)' = MenuSalesGroups(w)
         /\ TopSellingGroups(w)' = TopSellingGroups(w)]_vars

(***************************************************************************)
(* Claims on the order ledger                                              *)
(***************************************************************************)
\* C13: orders are append-only snapshots: whatever step is taken (a menu item
\* update or delete, a further order), every Order row and every OrderItem
\* row on record is still on record afterwards with all its fields as they
\* were (menuItemName, menuItemPrice, quantity, lineTotal; subtotal, tax,
\* total, amountPaid, changeAmount), and no second row takes its id.
C13_AppendOnly ==
  /\ [][/\ \A o \in orders : o \in orders'
        /\ \A it \in orderItems : it \in orderItems']_vars
  /\ [](\A o1, o2 \in orders : o1.id = o2.id => o1 = o2)
  /\ [](\A i1, i2 \in orderItems : i1.id = i2.id => i1 = i2)

\* two orders on record; a line keeps the name it was sold under after the
\* rename of its menu item, and another line's menu item has been deleted
C13_Witness ==
  /\ Cardinality(orders) = 2
  /\ \E it \in orderItems :
       /\ FindMenuItem(it.menuItemId) # NoItem
       /\ FindMenuItem(it.menuItemId).name # it.menuItemName
       /\ FindMenuItem(it.menuItemId).price # it.menuItemPrice
  /\ \E it \in orderItems : FindMenuItem(it.menuItemId) = NoItem

\* C15: every persisted OrderItem has a quantity that is a positive integer,
\* so that every line has lineTotal > 0 and every order subtotal > 0; a
\* request with a line of quantity zero or less persists no order.
C15_PositiveQuantity ==
  /\ \A it \in orderItems : it.quantity > 0 /\ it.lineTotal > 0
  /\ \A o \in orders : o.subtotal > 0
  /\ (resp.op = "createOrder" /\ \E k \in 1..Len(resp.req.body.items) :
                                     resp.req.body.items[k].quantity <= 0)
       => resp.status # 201

\* C14: every stored MenuItem has a price greater than 0 and a category of
\* the enum; a create or update request whose price is zero, negative or not
\* a number, or whose category is outside the enum, is refused.
C14_StoredMenuValid ==
  /\ \A m \in menu : m.price > 0 /\ m.category \in Categories
  /\ (resp.op \in {"menuCreate", "menuUpdate"} /\ ByAdmin(resp)) =>
       LET body == resp.req.body
       IN ((Has(body, "price") /\ (body.price.nan \/ body.price.val <= 0))
             \/ (Has(body, "category") /\ body.category \notin Categories))
            => ~Success(resp.status)

\* C17: a request is authorized by the role and status stored when it is
\* made, not by the role in the token: with a token that verifies, a user
\* whose stored status is not active is refused on every route that takes the
\* token, a user whose stored role is not admin is refused on the admin-only
\* route, and a user whose stored role is admin is admitted there whatever
\* role the token names.
C17_StoredRoleAndStatus ==
  (resp.op \in BearerOps /\ TruthyToken(TokenOf(resp.req.header))
     /\ Verifies(TokenOf(resp.req.header))) =>
    LET stored == FindUser(TokenOf(resp.req.header).userId)
    IN /\ stored.status # "active" => ~Success(resp.status)
       /\ (resp.op = "getUsers" /\ stored.role # "admin") => resp.status = 403
       /\ (resp.op = "getUsers" /\ stored.status = "active" /\ stored.role = "admin")
            => resp.status = 200

\* C18: the number given to an order is the last six digits of the
\* millisecond time at which the handler generates it (the ORDR# prefix is
\* constant), and the order is persisted under that number; two orders
\* numbered at times congruent modulo 1,000,000 ms therefore share a number.
C18_OrderNumber ==
  /\ [][(cur.pc = "lookup" /\ cur'.pc = "persist") =>
          /\ cur'.data.orderNumber = now % 1000000
          /\ cur'.data.orderNumber \in 0..999999]_vars
  /\ [][(cur.pc = "persist" /\ resp'.status = 201) =>
          /\ now' = now
          /\ \E o \in orders' : /\ o.id = nextOrderId
                                /\ o.orderNumber = cur.data.orderNumber
                                /\ o \notin orders]_vars
  /\ [][(cur.pc = "persist" /\ cur'.pc = "persist") =>
          cur'.data.orderNumber = cur.data.orderNumber]_vars

\* two orders on record under one number, taken 1,000,000 ms apart
C18_Witness ==
  \E o1, o2 \in orders :
    /\ o1.id # o2.id
    /\ o1.orderNumber = o2.orderNumber
    /\ o2.createdAt - o1.createdAt = 1000000

\* C20 as stated, its first half: every line of an order refers to a menu
\* item that exists and is available at the instant the order is persisted
\* (the consistent view of the menu that the claim asks for includes it).
C20_ConsistentView ==
  [][(cur.pc = "persist" /\ resp'.status = 201) =>
       \A k \in 1..Len(cur.orderItems) :
         /\ FindMenuItem(cur.orderItems[k].menuItemId) # NoItem
         /\ FindMenuItem(cur.orderItems[k].menuItemId).isAvailable]_vars

\* C20 amended: every line of a persisted order refers to a menu item that
\* existed and was available at the instant that line was looked up, and
\* carries the name and price the item had at that instant; a line once
\* resolved is not resolved again, and the order persists the lines as they
\* were resolved.
C20_PerLineView ==
  /\ [][Resolves =>
          LET k == Len(cur'.orderItems)
              m == FindMenuItem(cur.body.items[k].menuItemId)
          IN /\ m # NoItem
             /\ m.isAvailable
             /\ cur'.orderItems[k].menuItemId = m.id
             /\ cur'.orderItems[k].menuItemName = m.name
             /\ cur'.orderItems[k].menuItemPrice = m.price]_vars
  /\ [][(cur.pc = "lookup" /\ cur'.pc \in {"lookup", "persist"}) =>
          \A j \in 1..Len(cur.orderItems) : cur'.orderItems[j] = cur.orderItems[j]]_vars
  /\ [][(cur.pc = "persist" /\ resp'.status = 201) =>
          resp'.body.orderItems = ItemRows(nextOrderId, cur.orderItems)]_vars

\* an order has just been persisted with a line whose menu item was withdrawn
\* or deleted after its lookup and a line priced before a price change
C20_Witness ==
  /\ resp.op = "createOrder"
  /\ resp.status = 201
  /\ \E it \in resp.body.orderItems : ItemUnavailable(FindMenuItem(it.menuItemId))
  /\ \E it \in resp.body.orderItems :
       /\ FindMenuItem(it.menuItemId) # NoItem
       /\ FindMenuItem(it.menuItemId).price # it.menuItemPrice

====
